---- MODULE Spec2Model ----
(***************************************************************************)
(* The programs of the repository, each a specification of its own over    *)
(* the variables it uses: the Component tree of                            *)
(* src/structural_patterns/composite/main.cc (Spec, SpecNew, SpecLife),    *)
(* the Strategy Context of src/behavioral_patterns/strategy/main.cc        *)
(* (SpecStrategy), the Template Method of                                  *)
(* src/behavioral_patterns/template_method/main.cc (SpecTemplate) and the  *)
(* Facade of src/structural_patterns/facade/main.cc (SpecFacade).          *)
(*                                                                         *)
(* Component tree.                                                         *)
(* The state is the shape of the tree: every Composite's children_ list    *)
(* and every Component's parent_ pointer.  The operations are the virtual  *)
(* methods add, remove and execute of Component, Leaf and Composite.       *)
(* Strings are sequences of the literals the code concatenates ("Leaf",    *)
(* "+", "Branch(", ")"); Str flattens such a sequence to the text.         *)
(***************************************************************************)
EXTENDS Naturals, Integers, Sequences, FiniteSets, TLC

VARIABLES
    children,   \* Composite::children_ of every Composite (std::list<Component*>)
    parent,     \* Component::parent_ of every Component
    last,       \* the call that produced this state (history)
    alive,      \* the Components that are constructed and not yet destroyed
    set_calls,  \* how often the client has called set_parent itself (history)
    out,        \* what the program has written to stdout, piece by piece
    calls,      \* the member functions invoked so far, in order (history)
    strategy_,  \* Context::strategy_ (strategy/main.cc)
    subsystem_a_,   \* Facade::subsystem_a_ (facade/main.cc)
    subsystem_b_    \* Facade::subsystem_b_ (facade/main.cc)

\* the state of the Component tree program
composite_vars == <<children, parent, last, alive, set_calls>>

\* the state of the Strategy, Template Method and Facade programs
pattern_vars == <<out, calls, strategy_, subsystem_a_, subsystem_b_>>

vars == <<children, parent, last, alive, set_calls,
          out, calls, strategy_, subsystem_a_, subsystem_b_>>

\* Total number of list entries over all children_ lists the model explores.
MaxEdges == 3

\* The number of calls of set_parent a client makes itself in a run the
\* model explores (add and remove call it as often as they run).
MaxSetParent == 1

\* The objects of the program: the names main() gives them.
Leaves == {"leaf_1"}
Composites == {"branch_1", "branch_2"}
Components == Leaves \cup Composites

\* nullptr
Null == "nullptr"

\* Component::is_composite / Composite::is_composite
is_composite(n) == n \in Composites

----------------------------------------------------------------------------
(* Helpers on sequences *)

Range(s) == {s[i] : i \in 1..Len(s)}

Count(s, x) == Cardinality({i \in 1..Len(s) : s[i] = x})

RECURSIVE SumLen(_, _)
SumLen(ch, S) ==
    IF S = {} THEN 0
    ELSE LET p == CHOOSE q \in S : TRUE
         IN Len(ch[p]) + SumLen(ch, S \ {p})

\* number of entries in all children_ lists together
Edges == SumLen(children, Composites)

----------------------------------------------------------------------------
(* The methods *)

\* Component::get_parent
get_parent(n) == parent[n]

\* set_parent with the assignment lost
set_parent_lost(par, n, p) == par

\* Component::set_parent: this->parent_ = parent
set_parent(par, n, p) == [par EXCEPT ![n] = p]

\* push_front in the place of push_back
push_front(s, c) == <<c>> \o s

\* std::list::push_back
push_back(s, c) == Append(s, c)

\* a remove that erases the first element equal to value only
RECURSIVE list_remove_first(_, _)
list_remove_first(s, c) ==
    IF s = <<>> THEN <<>>
    ELSE IF Head(s) = c THEN Tail(s)
    ELSE <<Head(s)>> \o list_remove_first(Tail(s), c)

\* a remove written as erase(find(value)) without the test for end(): with no
\* element equal to value the last element goes
list_remove_or_pop(s, c) ==
    IF \E i \in 1..Len(s) : s[i] = c
    THEN SelectSeq(s, LAMBDA x : x # c)
    ELSE SubSeq(s, 1, Len(s) - 1)

\* a remove that moves the last element into the place of the first element
\* equal to value instead of closing the gap
list_remove_swap(s, c) ==
    IF \E i \in 1..Len(s) : s[i] = c
    THEN LET k == CHOOSE i \in 1..Len(s) :
                      s[i] = c /\ \A j \in 1..(i - 1) : s[j] # c
             t == [s EXCEPT ![k] = s[Len(s)]]
         IN SelectSeq(SubSeq(t, 1, Len(s) - 1), LAMBDA x : x # c)
    ELSE s

\* std::list::remove(value): erases every element equal to value
list_remove(s, c) == SelectSeq(s, LAMBDA x : x # c)

\* Composite::add
add(p, c) ==
    /\ children' = [children EXCEPT ![p] = push_back(@, c)]
    /\ parent' = set_parent(parent, c, p)

\* remove that forgets component->set_parent(nullptr)
remove_keeps_parent(p, c) ==
    /\ children' = [children EXCEPT ![p] = list_remove(@, c)]
    /\ parent' = parent

\* Composite::remove
remove(p, c) ==
    /\ children' = [children EXCEPT ![p] = list_remove(@, c)]
    /\ parent' = set_parent(parent, c, Null)

\* a base-class add that records the receiver as the parent of the argument
leaf_add_sets_parent(l, c) ==
    /\ children' = children
    /\ parent' = set_parent(parent, c, l)

\* Component::add, Component::remove: the empty bodies a Leaf inherits
leaf_add(l, c) == UNCHANGED <<children, parent>>

leaf_remove(l, c) == UNCHANGED <<children, parent>>

\* What does not return: execute on a tree with a cycle recurses without end.
NoReturn == <<"no return">>

\* Leaf::execute and Composite::execute.  `active` holds the Composites whose
\* execute is on the call stack: meeting one of them again means the
\* recursion never ends.
RECURSIVE execute_on(_, _, _)
RECURSIVE execute_loop(_, _, _, _, _)

\* an execute that returns the bare result when there is nothing to wrap
RECURSIVE execute_loop_bare(_, _, _, _, _)
execute_loop_bare(ch, p, i, result, active) ==
    IF i > Len(ch[p])
    THEN IF result = <<>> THEN <<>> ELSE <<"Branch(">> \o result \o <<")">>
    ELSE LET c == ch[p][i]
             back == ch[p][Len(ch[p])]
             r == execute_on(ch, c, active)
         IN IF r = NoReturn THEN NoReturn
            ELSE IF c = back
                 THEN execute_loop_bare(ch, p, i + 1, result \o r, active)
                 ELSE execute_loop_bare(ch, p, i + 1, result \o r \o <<"+">>,
                                        active)

execute_loop(ch, p, i, result, active) ==
    IF i > Len(ch[p]) THEN <<"Branch(">> \o result \o <<")">>
    ELSE LET c == ch[p][i]
             back == ch[p][Len(ch[p])]
             r == execute_on(ch, c, active)
         IN IF r = NoReturn THEN NoReturn
            ELSE IF c = back
                 THEN execute_loop(ch, p, i + 1, result \o r, active)
                 ELSE execute_loop(ch, p, i + 1, result \o r \o <<"+">>, active)

\* a Leaf without its override of execute: it renders as an empty Composite
execute_on_no_override(ch, n, active) ==
    IF ~is_composite(n) THEN <<"Branch(", ")">>
    ELSE IF n \in active THEN NoReturn
    ELSE execute_loop(ch, n, 1, <<>>, active \cup {n})

execute_on(ch, n, active) ==
    IF ~is_composite(n) THEN <<"Leaf">>
    ELSE IF n \in active THEN NoReturn
    ELSE execute_loop(ch, n, 1, <<>>, active \cup {n})

execute(n) == execute_on(children, n, {})

\* The text of a sequence of literals
RECURSIVE Str(_)
Str(s) == IF s = <<>> THEN "" ELSE Head(s) \o Str(Tail(s))

----------------------------------------------------------------------------
(* The state machine *)

\* A call and what the caller sees of it: `found` is how often arg stood in
\* self's children_ when the call was made (0 for a Leaf, which has none), `ret`
\* the returned string of execute (<<>> for the void methods), `prev` the
\* `found` of the call before it when that was the same call, and -1 when it
\* was another call.
Call(op, self, arg, found, ret) ==
    [op |-> op, self |-> self, arg |-> arg, found |-> found, ret |-> ret,
     prev |-> IF last.op = op /\ last.self = self /\ last.arg = arg
              THEN last.found ELSE -1]

\* The process is alive: no execute is stuck in an endless recursion
Running == last.ret # NoReturn

\* No Context and no Facade is constructed, nothing is written or called:
\* the other programs' variables while the Component tree runs.
NoPatterns ==
    /\ out = <<>>
    /\ calls = <<>>
    /\ strategy_ = Null
    /\ subsystem_a_ = Null
    /\ subsystem_b_ = Null

\* make_shared<Leaf>() / make_shared<Composite>(): value-initialised objects
InitComposite ==
    /\ children = [p \in Composites |-> <<>>]
    /\ parent = [n \in Components |-> Null]
    /\ last = [op |-> "new", self |-> Null, arg |-> Null, found |-> 0,
               ret |-> <<>>, prev |-> -1]
    /\ alive = Components
    /\ set_calls = 0

Init ==
    /\ InitComposite
    /\ NoPatterns

Add(p, c) ==
    /\ Running
    /\ Edges < MaxEdges
    /\ add(p, c)
    /\ last' = Call("add", p, c, Count(children[p], c), <<>>)
    /\ UNCHANGED <<alive, set_calls>>
    /\ UNCHANGED pattern_vars

Remove(p, c) ==
    /\ Running
    /\ remove(p, c)
    /\ last' = Call("remove", p, c, Count(children[p], c), <<>>)
    /\ UNCHANGED <<alive, set_calls>>
    /\ UNCHANGED pattern_vars

LeafAdd(l, c) ==
    /\ Running
    /\ leaf_add(l, c)
    /\ last' = Call("add", l, c, 0, <<>>)
    /\ UNCHANGED <<alive, set_calls>>
    /\ UNCHANGED pattern_vars

LeafRemove(l, c) ==
    /\ Running
    /\ leaf_remove(l, c)
    /\ last' = Call("remove", l, c, 0, <<>>)
    /\ UNCHANGED <<alive, set_calls>>
    /\ UNCHANGED pattern_vars

\* an execute that takes the children it has visited off the list
Execute_draining(n) ==
    /\ Running
    /\ children' = [p \in Composites |-> IF p = n THEN <<>> ELSE children[p]]
    /\ parent' = parent
    /\ last' = Call("execute", n, Null, 0, execute(n))
    /\ UNCHANGED <<alive, set_calls>>
    /\ UNCHANGED pattern_vars

Execute(n) ==
    /\ Running
    /\ UNCHANGED <<children, parent>>
    /\ last' = Call("execute", n, Null, 0, execute(n))
    /\ UNCHANGED <<alive, set_calls>>
    /\ UNCHANGED pattern_vars

\* n->set_parent(p) called by the client: Component::set_parent is public
\* and takes any Component* (a Leaf, the node itself, nullptr).
SetParent(n, p) ==
    /\ Running
    /\ set_calls < MaxSetParent
    /\ parent' = set_parent(parent, n, p)
    /\ children' = children
    /\ last' = Call("set_parent", n, p, 0, <<>>)
    /\ set_calls' = set_calls + 1
    /\ alive' = alive
    /\ UNCHANGED pattern_vars

Next ==
    \/ \E p \in Composites, c \in Components : Add(p, c)
    \/ \E p \in Composites, c \in Components : Remove(p, c)
    \/ \E l \in Leaves, c \in Components : LeafAdd(l, c)
    \/ \E l \in Leaves, c \in Components : LeafRemove(l, c)
    \/ \E n \in Components : Execute(n)
    \/ \E n \in Components, p \in Components \cup {Null} : SetParent(n, p)

Spec == Init /\ [][Next]_vars

----------------------------------------------------------------------------
(* Construction *)

\* a pointer value that is the address of no Component
Wild == "wild"

\* T(): value-initialisation, what make_shared<T>() and make_unique<T>() do.
\* The defaulted constructor is not user-provided, so the object is zeroed
\* first and parent_ is nullptr.
value_init == {Null}

\* T without an initialiser (`new Leaf`, `Leaf leaf;`): default-initialisation.
\* parent_ has no initialiser and the constructor sets none, so its value is
\* indeterminate: whatever the storage held.
default_init == Components \cup {Null, Wild}

\* The objects as new: at most one of them default-initialised (last.self
\* names it), the others value-initialised.
InitNew ==
    /\ children = [p \in Composites |-> <<>>]
    /\ alive = Components
    /\ set_calls = 0
    /\ \E d \in Components \cup {Null} :
          /\ parent \in [Components -> default_init]
          /\ \A n \in Components :
                parent[n] \in (IF n = d THEN default_init ELSE value_init)
          /\ last = [op |-> "new", self |-> d, arg |-> Null, found |-> 0,
                     ret |-> <<>>, prev |-> -1]
    /\ NoPatterns

SpecNew == InitNew /\ [][Next]_vars

----------------------------------------------------------------------------
(* Destruction *)

\* Composite::~Composite, Leaf::~Leaf (both defaulted): the object goes, a
\* Composite's list with it; no other object is written.
Destroy(n) ==
    /\ Running
    /\ n \in alive
    /\ alive' = alive \ {n}
    /\ children' = [p \in Composites |-> IF p = n THEN <<>> ELSE children[p]]
    /\ parent' = parent
    /\ last' = Call("delete", n, Null, 0, <<>>)
    /\ set_calls' = set_calls
    /\ UNCHANGED pattern_vars

\* The client's calls, and then the holders going out of scope: once an
\* object is destroyed only destructors run.
NextLife ==
    \/ alive = Components /\ Next
    \/ \E n \in Components : Destroy(n)

SpecLife == Init /\ [][NextLife]_vars

TypeOK ==
    /\ children \in [Composites -> Seq(Components)]
    /\ parent \in [Components -> Components \cup {Null}]
    /\ set_calls \in 0..MaxSetParent

----------------------------------------------------------------------------
(* The child relation *)

\* the Composites that hold n in their children_
Owners(n) == {p \in Composites : n \in Range(children[p])}

\* the children of a node (a Leaf has none)
Kids(n) == IF is_composite(n) THEN Range(children[n]) ELSE {}

RECURSIVE Closure(_, _)
Closure(S, k) ==
    IF k = 0 THEN S
    ELSE Closure(S \cup UNION {Kids(m) : m \in S}, k - 1)

\* the nodes reached from n by following children_ one or more times
Descendants(n) == Closure(Kids(n), Cardinality(Components))

\* the nodes from which n is reached by following children_ one or more times
Ancestors(n) == {a \in Components : n \in Descendants(a)}

\* The state was reached by add, remove and execute calls alone: the client
\* has not called set_parent itself.
ByTreeCalls == set_calls = 0

----------------------------------------------------------------------------
(* C1 .. C3: the invariants I2, I3, I1 *)

\* C1: parent consistency (I2).  In every state reached by add / remove calls,
\* a node whose get_parent is a non-null p has a Composite p that holds it in
\* children_, and a node that no Composite holds has a null parent.
C1_ParentConsistency ==
    ByTreeCalls =>
        \A n \in Components :
            /\ get_parent(n) # Null =>
                  /\ is_composite(get_parent(n))
                  /\ n \in Range(children[get_parent(n)])
            /\ Owners(n) = {} => get_parent(n) = Null

\* C1 witness: a remove has just taken a node out of the Composite that was
\* its parent while another node still has that Composite as its parent.
C1_Witness ==
    /\ ByTreeCalls
    /\ last.op = "remove" /\ is_composite(last.self) /\ last.found > 0
    /\ Owners(last.arg) = {} /\ get_parent(last.arg) = Null
    /\ \E m \in Components : get_parent(m) = last.self

\* C2: single ownership (I3).  No node is in the children_ of two different
\* Composites at the same time.
C2_SingleOwnership ==
    ByTreeCalls => \A n \in Components : Cardinality(Owners(n)) <= 1

\* C3: tree shape (I1).  No node is reachable from itself by following
\* children_ one or more times.
C3_TreeShape ==
    ByTreeCalls => \A n \in Components : n \notin Descendants(n)

----------------------------------------------------------------------------
(* C4 .. C6: what add and remove do to the parent reference *)

\* the step is the call self->op(arg)
IsCall(op, self, arg) ==
    /\ last'.op = op /\ last'.self = self /\ last'.arg = arg

\* C4: cycle rejection.  add(p, c) with c = p or c an ancestor of p fails with
\* CycleDetected and leaves every children_ and every parent reference as it
\* was before the call.
C4_CycleRejection ==
    [][\A p \in Composites, c \in Components :
          (ByTreeCalls /\ IsCall("add", p, c)
             /\ (c = p \/ c \in Ancestors(p))) =>
              /\ last'.ret = <<"CycleDetected">>
              /\ children' = children
              /\ parent' = parent]_vars

\* C5: re-parenting.  add(p2, n) on a node n whose parent is another
\* Composite p1 takes n out of p1's children_, leaves n exactly once in p2's
\* children_ and makes p2 the parent of n.
C5_Reparenting ==
    [][\A p2 \in Composites, n \in Components :
          (ByTreeCalls /\ IsCall("add", p2, n)
             /\ is_composite(get_parent(n)) /\ get_parent(n) # p2) =>
              /\ n \notin Range(children'[get_parent(n)])
              /\ Count(children'[p2], n) = 1
              /\ parent'[n] = p2]_vars

\* C6: right after add(p, n) on a Composite p, get_parent(n) is p; right
\* after remove(p, n) on a Composite p, get_parent(n) is null.
C6_ParentAfterCall ==
    is_composite(last.self) =>
        /\ last.op = "add" => get_parent(last.arg) = last.self
        /\ last.op = "remove" => get_parent(last.arg) = Null

\* C6 witness: remove(p, n) has just returned for an n that an earlier
\* add(p, n) had put into p's children_.
C6_Witness ==
    /\ last.op = "remove" /\ is_composite(last.self) /\ last.found = 1
    /\ get_parent(last.arg) = Null

----------------------------------------------------------------------------
(* C7, C8: the string execute returns *)

\* r1 + r2 + ... + rk: one "+" between consecutive results, none at the end
RECURSIVE JoinPlus(_)
JoinPlus(rs) ==
    IF rs = <<>> THEN <<>>
    ELSE IF Len(rs) = 1 THEN rs[1]
    ELSE rs[1] \o <<"+">> \o JoinPlus(Tail(rs))

\* the execute results of p's children, in list order
KidResults(p) == [i \in 1..Len(children[p]) |-> execute(children[p][i])]

\* C7: aggregation.  For a Composite p with a non-empty children_ (and an
\* execute that returns), execute(p) is "Branch(" r1 "+" ... "+" rk ")" with
\* ri the execute result of the i-th child: one "+" between each pair of
\* consecutive results and none after the last.
C7_Aggregation ==
    \A p \in Composites :
        (ByTreeCalls /\ children[p] # <<>> /\ execute(p) # NoReturn) =>
            execute(p) = <<"Branch(">> \o JoinPlus(KidResults(p)) \o <<")">>

\* Recursive descent over  node ::= Leaf | Branch( node { + node } ) : the
\* position after the node that starts at s[i], or 0 when there is none.
\* With emptyOk a Branch() without children is a node too.
RECURSIVE ParseNode(_, _, _)
RECURSIVE ParseTail(_, _, _)
ParseNode(s, i, emptyOk) ==
    IF i > Len(s) THEN 0
    ELSE IF s[i] = "Leaf" THEN i + 1
    ELSE IF s[i] # "Branch(" THEN 0
    ELSE IF emptyOk /\ i < Len(s) /\ s[i + 1] = ")" THEN i + 2
    ELSE LET j == ParseNode(s, i + 1, emptyOk)
         IN IF j = 0 THEN 0 ELSE ParseTail(s, j, emptyOk)

ParseTail(s, j, emptyOk) ==
    IF j > Len(s) THEN 0
    ELSE IF s[j] = ")" THEN j + 1
    ELSE IF s[j] # "+" THEN 0
    ELSE LET k == ParseNode(s, j + 1, emptyOk)
         IN IF k = 0 THEN 0 ELSE ParseTail(s, k, emptyOk)

IsNode(s, emptyOk) == ParseNode(s, 1, emptyOk) = Len(s) + 1

\* C8: grammar.  In every reachable state the string execute returns on any
\* node is a sentence of  node ::= Leaf | Branch(<node>{+<node>}).  The
\* grammar is read here with the "Branch()" of an empty Composite admitted
\* (as P1 of the specification has it), so that what is refuted does not
\* rest on the empty case: the grammar as written fails on a new Composite
\* already (C8_GrammarAsWritten).
C8_Grammar ==
    \A n \in Components :
        (ByTreeCalls /\ execute(n) # NoReturn) => IsNode(execute(n), TRUE)

\* The grammar of C8 taken to the letter: a Branch has at least one node.
C8_GrammarAsWritten ==
    \A n \in Components :
        (ByTreeCalls /\ execute(n) # NoReturn) => IsNode(execute(n), FALSE)

----------------------------------------------------------------------------
(* C9, C10: remove *)

RECURSIVE WithoutFirst(_, _)
WithoutFirst(s, c) ==
    IF s = <<>> THEN <<>>
    ELSE IF Head(s) = c THEN Tail(s)
    ELSE <<Head(s)>> \o WithoutFirst(Tail(s), c)

\* C9: remove(p, child) deletes the first occurrence of child from p's
\* children_ only (a later occurrence and every other element stay) and
\* clears child's parent reference.
C9_RemoveFirstOnly ==
    [][\A p \in Composites, c \in Components :
          IsCall("remove", p, c) =>
              /\ children'[p] = WithoutFirst(children[p], c)
              /\ parent'[c] = Null]_vars

\* C10: the parent reference of n is set exactly when an add places n into a
\* Composite's children_, cleared exactly when a remove takes n out of a
\* Composite's children_, and left as it is by every other call on the tree,
\* a remove(p, n) for an n that is not in p's children_ included.  (The
\* setter itself is not such a call: the steps looked at are those of
\* add, remove and execute.)
C10_ParentFrame ==
    [][\A n \in Components :
          (ByTreeCalls /\ last'.op # "set_parent") =>
          LET placed == \E p \in Composites :
                            /\ IsCall("add", p, n)
                            /\ Count(children'[p], n) > Count(children[p], n)
              taken == \E p \in Composites :
                            /\ IsCall("remove", p, n)
                            /\ Count(children'[p], n) < Count(children[p], n)
          IN /\ placed => parent'[n] = last'.self
             /\ taken => parent'[n] = Null
             /\ (~placed /\ ~taken) => parent'[n] = parent[n]]_vars

----------------------------------------------------------------------------
(* C11 .. C13: the order of children_ *)

\* C11: removing an absent child.  remove(p, n) for an n that is not in p's
\* children_ leaves p's children_ as it was, contents and order, and returns
\* normally.
C11_RemoveAbsent ==
    [][\A p \in Composites, n \in Components :
          (IsCall("remove", p, n) /\ n \notin Range(children[p])) =>
              /\ children'[p] = children[p]
              /\ last'.ret # NoReturn]_vars

\* C11 witness: remove(p, n) has returned for an n that was not in p's
\* children_, and p has children.
C11_Witness ==
    /\ last.op = "remove" /\ is_composite(last.self) /\ last.found = 0
    /\ children[last.self] # <<>>

\* the i-th smallest element of a set of numbers
Nth(S, i) == CHOOSE k \in S : Cardinality({j \in S : j <= k}) = i

\* C12: remove keeps the order of the others.  After remove(p, x) for an x
\* in p's children_, p's children_ is what it was with x deleted: the
\* elements other than x, each at its old place relative to the others.
C12_RemoveKeepsOrder ==
    [][\A p \in Composites, x \in Components :
          (IsCall("remove", p, x) /\ x \in Range(children[p])) =>
              LET old == children[p]
                  kept == {i \in 1..Len(old) : old[i] # x}
              IN /\ Len(children'[p]) = Cardinality(kept)
                 /\ \A j \in 1..Cardinality(kept) :
                        children'[p][j] = old[Nth(kept, j)]]_vars

\* C12 witness: remove(p, x) has returned for an x that stood once in p's
\* children_ among two other, different elements.
C12_Witness ==
    /\ last.op = "remove" /\ is_composite(last.self) /\ last.found = 1
    /\ Len(children[last.self]) = 2
    /\ children[last.self][1] # children[last.self][2]

\* C13: add appends.  After add(p, child) p's children_ is its previous value
\* followed by child: the elements that were there keep their positions.  No
\* call other than an add or a remove on p changes p's children_.
C13_AddAppends ==
    [][/\ \A p \in Composites, c \in Components :
            IsCall("add", p, c) =>
                /\ Len(children'[p]) = Len(children[p]) + 1
                /\ children'[p][Len(children'[p])] = c
                /\ \A i \in 1..Len(children[p]) :
                       children'[p][i] = children[p][i]
       /\ \A p \in Composites :
            children'[p] # children[p] =>
                last'.self = p /\ last'.op \in {"add", "remove"}]_vars

\* C13 witness: add(p, child) has returned on a p that had another child
\* before; child is the last element.
C13_Witness ==
    /\ last.op = "add" /\ is_composite(last.self)
    /\ Len(children[last.self]) >= 2
    /\ children[last.self][Len(children[last.self])] = last.arg
    /\ children[last.self][1] # last.arg

----------------------------------------------------------------------------
(* C14, C15: the strings of an empty Composite and of a Leaf *)

\* C14: execute on a Composite whose children_ is empty returns "Branch()",
\* for a new Composite and for one that remove calls have emptied again.
C14_EmptyBranch ==
    /\ \A p \in Composites :
          children[p] = <<>> => Str(execute(p)) = "Branch()"
    /\ (last.op = "execute" /\ is_composite(last.self)
           /\ children[last.self] = <<>>) => Str(last.ret) = "Branch()"

\* C14 witness: a remove has just taken the last child out of a Composite,
\* and execute on it gives "Branch()".
C14_Witness ==
    /\ last.op = "remove" /\ is_composite(last.self) /\ last.found > 0
    /\ children[last.self] = <<>>
    /\ Str(execute(last.self)) = "Branch()"

\* C15: execute on a Leaf returns "Leaf" in every reachable state, whether
\* and wherever the Leaf is attached.
C15_LeafString ==
    /\ \A l \in Leaves : Str(execute(l)) = "Leaf"
    /\ (last.op = "execute" /\ last.self \in Leaves) => Str(last.ret) = "Leaf"

\* C15 witness: execute has returned "Leaf" on a Leaf that is a child of a
\* Composite that is itself a child.
C15_Witness ==
    /\ last.op = "execute" /\ last.self \in Leaves
    /\ Str(last.ret) = "Leaf"
    /\ \E p \in Owners(last.self) : Owners(p) # {}

----------------------------------------------------------------------------
(* C16 .. C18: calls that change nothing *)

\* C16: add(x) and remove(x) on a Leaf return normally and leave the Leaf,
\* x (its parent reference included) and every Composite's children_ as they
\* were.
C16_LeafNoOp ==
    [][\A l \in Leaves, x \in Components :
          (IsCall("add", l, x) \/ IsCall("remove", l, x)) =>
              /\ children' = children
              /\ parent' = parent
              /\ last'.ret # NoReturn]_vars

\* C16 witness: add or remove has returned on a Leaf, for an argument that is
\* the child of a Composite and has that Composite as its parent.
C16_Witness ==
    /\ last.op \in {"add", "remove"} /\ last.self \in Leaves
    /\ is_composite(get_parent(last.arg))
    /\ last.arg \in Range(children[get_parent(last.arg)])

\* C17: execute is pure.  A call of execute leaves every children_ and every
\* parent reference as it was, and the second of two execute calls on the
\* same node with no other call between them returns what the first returned.
C17_ExecutePure ==
    [][\A n \in Components :
          IsCall("execute", n, Null) =>
              /\ children' = children
              /\ parent' = parent
              /\ (last.op = "execute" /\ last.self = n) => last'.ret = last.ret]_vars

\* C17 witness: execute has returned for the second time in a row on a
\* Composite that has a Composite with children among its children.
C17_Witness ==
    /\ last.op = "execute" /\ last.prev >= 0 /\ last.ret # NoReturn
    /\ is_composite(last.self)
    /\ \E c \in Range(children[last.self]) :
           is_composite(c) /\ children[c] # <<>>

\* C18: remove is idempotent.  A remove(p, n) that follows a remove(p, n)
\* returns normally and leaves every children_ and every parent reference
\* as the first left them.
C18_RemoveIdempotent ==
    [][\A p \in Composites, n \in Components :
          (last.op = "remove" /\ last.self = p /\ last.arg = n
             /\ IsCall("remove", p, n)) =>
              /\ children' = children
              /\ parent' = parent
              /\ last'.ret # NoReturn]_vars

\* C18 witness: remove(p, n) has returned right after the remove(p, n) that
\* took n out of p's children_, and p has other children left.
C18_Witness ==
    /\ last.op = "remove" /\ is_composite(last.self) /\ last.prev > 0
    /\ last.found = 0 /\ children[last.self] # <<>>
    /\ get_parent(last.arg) = Null

----------------------------------------------------------------------------
(* C19, C20: construction and destruction *)

\* C19: a new Leaf or Composite has no parent: get_parent is null on every
\* node before any call is made on it, however the node was created.
C19_NewHasNoParent ==
    last.op = "new" => \A n \in Components : get_parent(n) = Null

\* C20: no dangling parent pointer.  After add / remove calls followed by
\* the destruction of Composites, the get_parent of a surviving node is
\* null or a surviving Composite.
C20_NoDangling ==
    ByTreeCalls =>
        \A n \in alive : get_parent(n) # Null => get_parent(n) \in alive

----------------------------------------------------------------------------
(* C21, C22: cycles and duplicates *)

\* C21: execute terminates.  In every state reached by add / remove calls,
\* the add of a Composite to itself or to one of its descendants included, a
\* call of execute on any node returns.
C21_ExecuteReturns ==
    (ByTreeCalls /\ last.op = "execute") => last.ret # NoReturn

\* C22: no duplicate children.  In every state reached by add / remove
\* calls, add(p, n) issued twice included, a node stands at most once in the
\* children_ of any one Composite.
C22_NoDuplicates ==
    ByTreeCalls => \A p \in Composites, n \in Components : Count(children[p], n) <= 1

----------------------------------------------------------------------------
(* Strategy: src/behavioral_patterns/strategy/main.cc *)

\* The number of calls a client makes in a run the model explores.
MaxCalls == 6

\* A member function invoked with its arguments: an entry of `calls`.
Invoke(fn, args) == <<fn, args>>

\* The member functions a client calls; the others are called by these.
client_fns ==
    {"Context::set_strategy", "Context::do_something",
     "AbstractClass::execute_algorithm",
     "Facade::init", "Facade::build", "Facade::deinit"}

\* how many calls the client has made
ClientCalls == Len(SelectSeq(calls, LAMBDA e : e[1] \in client_fns))

\* The Strategy objects client_run makes:
\* make_unique<ConcreteStrategyA>(100), make_unique<ConcreteStrategyB>("abcd")
Strategies == {"strategy_a", "strategy_b"}

class_of(s) ==
    IF s = "strategy_a" THEN "ConcreteStrategyA" ELSE "ConcreteStrategyB"

\* ConcreteStrategyA::internal_number_, ConcreteStrategyB::internal_char_
internal_number_(s) == 100
internal_char_(s) == "abcd"

\* ConcreteStrategyA::execute, ConcreteStrategyB::execute: what they print
strategy_execute(s) ==
    IF class_of(s) = "ConcreteStrategyA"
    THEN "Doing something using Strategy A - Internal data \""
             \o ToString(internal_number_(s)) \o "\""
    ELSE "Doing something using Strategy B - Internal data \""
             \o internal_char_(s) \o "\""

\* a set_strategy that drops its argument
set_strategy_keep(s) == strategy_' = strategy_

\* Context::set_strategy: strategy_ = std::move(strategy)
set_strategy(s) == strategy_' = s

\* Context::do_something: what it prints and what it invokes
Context_do_something(st) ==
    IF st = Null
    THEN [out |-> <<"Context: Strategy isn't set\n">>, calls |-> <<>>]
    ELSE [out |-> <<"Context: Execute strategy:\n", strategy_execute(st), "\n">>,
          calls |-> <<Invoke(class_of(st) \o "::execute", <<st>>)>>]

\* Context::Context(strategy): strategy_(std::move(strategy))
InitStrategy ==
    /\ InitComposite
    /\ subsystem_a_ = Null
    /\ subsystem_b_ = Null
    /\ out = <<>>
    /\ \E s \in Strategies \cup {Null} :
          /\ strategy_ = s
          /\ calls = <<Invoke("Context::Context", <<s>>)>>

SetStrategy(s) ==
    /\ ClientCalls < MaxCalls
    /\ set_strategy(s)
    /\ calls' = Append(calls, Invoke("Context::set_strategy", <<s>>))
    /\ out' = out
    /\ UNCHANGED <<composite_vars, subsystem_a_, subsystem_b_>>

DoSomething ==
    /\ ClientCalls < MaxCalls
    /\ LET r == Context_do_something(strategy_)
       IN  /\ out' = out \o r.out
           /\ calls' = calls \o <<Invoke("Context::do_something", <<>>)>>
                             \o r.calls
    /\ strategy_' = strategy_
    /\ UNCHANGED <<composite_vars, subsystem_a_, subsystem_b_>>

NextStrategy ==
    \/ \E s \in Strategies \cup {Null} : SetStrategy(s)
    \/ DoSomething

SpecStrategy == InitStrategy /\ [][NextStrategy]_vars

\* the step is a call of the client-level member function fn
IsInvoke(fn) ==
    /\ Len(calls') > Len(calls)
    /\ calls'[Len(calls) + 1][1] = fn

\* the Strategy handed to the Context last: by set_strategy, or by the
\* constructor when set_strategy was never called
Installed ==
    LET I == {i \in 1..Len(calls) :
                calls[i][1] \in {"Context::Context", "Context::set_strategy"}}
        m == CHOOSE i \in I : \A j \in I : j <= i
    IN  calls[m][2][1]

\* C23: do_something delegates to exactly the most recently installed
\* Strategy (the constructor argument if none was set), calling its execute
\* once; when that is null it reports "Strategy isn't set" and executes no
\* strategy.
C23_Delegation ==
    [][IsInvoke("Context::do_something") =>
        LET s == Installed
            me == Invoke("Context::do_something", <<>>)
        IN  IF s = Null
            THEN /\ calls' = Append(calls, me)
                 /\ out' = Append(out, "Context: Strategy isn't set\n")
            ELSE /\ calls' = calls \o <<me, Invoke(class_of(s) \o "::execute", <<s>>)>>
                 /\ "Context: Strategy isn't set\n" \notin Range(SubSeq(out', Len(out) + 1, Len(out')))
      ]_vars

\* client_run: a Context made with strategy_a is given strategy_b and then
\* do_something runs strategy_b
C23_Witness ==
    /\ Len(calls) >= 4
    /\ calls[1] = Invoke("Context::Context", <<"strategy_a">>)
    /\ SubSeq(calls, Len(calls) - 2, Len(calls)) =
         << Invoke("Context::set_strategy", <<"strategy_b">>),
            Invoke("Context::do_something", <<>>),
            Invoke("ConcreteStrategyB::execute", <<"strategy_b">>) >>

----------------------------------------------------------------------------
(* Template Method: src/behavioral_patterns/template_method/main.cc *)

\* The objects of main() and their classes
ConcreteObjects == {"concrete_class_1", "concrete_class_2"}

dynamic_type(obj) ==
    IF obj = "concrete_class_1" THEN "ConcreteClass1" ELSE "ConcreteClass2"

\* the steps a class overrides
overrides(cls) == IF cls = "ConcreteClass1" THEN {3, 4} ELSE {3, 4, 5}

\* The class whose execute_step_k runs for an object of class cls: steps 1
\* and 2 are not virtual, the others go to the final overrider.
implementer(cls, k) ==
    IF k \in {1, 2} THEN "AbstractClass"
    ELSE IF k \in overrides(cls) THEN cls
    ELSE "AbstractClass"

\* impl::execute_step_k: what it prints (AbstractClass's steps 5 and 6 have
\* an empty body)
step_output(impl, k) ==
    IF impl = "AbstractClass" /\ k \in {5, 6} THEN <<>>
    ELSE <<impl \o ": Implements step " \o ToString(k) \o "\n">>

\* a template method with steps 3 and 4 exchanged
step_order_swapped == <<1, 2, 4, 3, 5, 6>>

\* AbstractClass::execute_algorithm: the steps in the order it calls them
step_order == <<1, 2, 3, 4, 5, 6>>

\* AbstractClass::execute_algorithm from its i-th call on: what is printed
\* and what is invoked
RECURSIVE execute_steps(_, _)
execute_steps(obj, i) ==
    IF i > Len(step_order) THEN [out |-> <<>>, calls |-> <<>>]
    ELSE LET k == step_order[i]
             impl == implementer(dynamic_type(obj), k)
             rest == execute_steps(obj, i + 1)
         IN  [out |-> step_output(impl, k) \o rest.out,
              calls |-> <<Invoke(impl \o "::execute_step_" \o ToString(k),
                                 <<obj>>)>> \o rest.calls]

execute_algorithm(obj) == execute_steps(obj, 1)

\* main(): the objects are constructed, nothing has run
InitTemplate ==
    /\ InitComposite
    /\ NoPatterns

\* run_client(obj): obj->execute_algorithm()
RunClient(obj) ==
    /\ ClientCalls < MaxCalls
    /\ LET r == execute_algorithm(obj)
       IN  /\ out' = out \o r.out
           /\ calls' = calls
                 \o <<Invoke("AbstractClass::execute_algorithm", <<obj>>)>>
                 \o r.calls
    /\ UNCHANGED <<composite_vars, strategy_, subsystem_a_, subsystem_b_>>

NextTemplate == \E obj \in ConcreteObjects : RunClient(obj)

SpecTemplate == InitTemplate /\ [][NextTemplate]_vars

\* C24: execute_algorithm invokes steps 1..6 once each in ascending order;
\* steps 1-2 are AbstractClass's, steps 3-4 the subclass's, steps 5-6 do
\* nothing unless overridden (ConcreteClass2 overrides step 5 only,
\* ConcreteClass1 neither).
C24_TemplateOrder ==
    [][IsInvoke("AbstractClass::execute_algorithm") =>
        LET obj == calls'[Len(calls) + 1][2][1]
            sub == IF obj = "concrete_class_1" THEN "ConcreteClass1"
                   ELSE "ConcreteClass2"
            five == IF sub = "ConcreteClass2" THEN "ConcreteClass2"
                    ELSE "AbstractClass"
        IN  /\ calls' = calls \o
                 << Invoke("AbstractClass::execute_algorithm", <<obj>>),
                    Invoke("AbstractClass::execute_step_1", <<obj>>),
                    Invoke("AbstractClass::execute_step_2", <<obj>>),
                    Invoke(sub \o "::execute_step_3", <<obj>>),
                    Invoke(sub \o "::execute_step_4", <<obj>>),
                    Invoke(five \o "::execute_step_5", <<obj>>),
                    Invoke("AbstractClass::execute_step_6", <<obj>>) >>
            /\ out' = out \o
                 << "AbstractClass: Implements step 1\n",
                    "AbstractClass: Implements step 2\n",
                    sub \o ": Implements step 3\n",
                    sub \o ": Implements step 4\n" >> \o
                 (IF sub = "ConcreteClass2"
                  THEN <<"ConcreteClass2: Implements step 5\n">> ELSE <<>>)
      ]_vars

\* main(): the algorithm has run on concrete_class_1 and then on
\* concrete_class_2, whose step 5 printed
C24_Witness ==
    /\ Len(calls) = 14
    /\ calls[1] = Invoke("AbstractClass::execute_algorithm", <<"concrete_class_1">>)
    /\ calls[8] = Invoke("AbstractClass::execute_algorithm", <<"concrete_class_2">>)
    /\ Len(out) = 9
    /\ out[9] = "ConcreteClass2: Implements step 5\n"

----------------------------------------------------------------------------
(* Facade: src/structural_patterns/facade/main.cc *)

\* std::make_unique<SubsystemA>() / std::make_unique<SubsystemB>()
SubsystemA == "SubsystemA"
SubsystemB == "SubsystemB"

\* SubsystemA / SubsystemB ::init, ::do_something, ::deinit: what they print
subsystem_output(sub, op) ==
    sub \o ": " \o (CASE op = "init" -> "Initialized.\n"
                      [] op = "do_something" -> "Doing something.\n"
                      [] op = "deinit" -> "Deinitialized.\n")

\* a Facade that calls its subsystems without the null tests
on_subsystem_unguarded(ptr, sub, op) ==
    [out |-> <<subsystem_output(sub, op)>>,
     calls |-> <<Invoke(sub \o "::" \o op, <<>>)>>]

\* if (subsystem_x_) { subsystem_x_->op(); }
on_subsystem(ptr, sub, op) ==
    IF ptr # Null
    THEN [out |-> <<subsystem_output(sub, op)>>,
          calls |-> <<Invoke(sub \o "::" \o op, <<>>)>>]
    ELSE [out |-> <<>>, calls |-> <<>>]

\* The body shared by Facade::init, Facade::build and Facade::deinit: the
\* header line, then subsystem A, then subsystem B.
facade_call(header, op) ==
    LET a == on_subsystem(subsystem_a_, SubsystemA, op)
        b == on_subsystem(subsystem_b_, SubsystemB, op)
    IN  [out |-> <<header>> \o a.out \o b.out, calls |-> a.calls \o b.calls]

Facade_init == facade_call("Facade initializes subsystems:\n", "init")
Facade_deinit == facade_call("Facade deinitializes subsystems:\n", "deinit")
Facade_build ==
    facade_call("Facade' subsystems perform the action:\n", "do_something")

\* Facade::Facade(has_subsystem_a, has_subsystem_b)
InitFacade ==
    /\ InitComposite
    /\ strategy_ = Null
    /\ out = <<>>
    /\ \E has_subsystem_a \in BOOLEAN, has_subsystem_b \in BOOLEAN :
          /\ subsystem_a_ = IF has_subsystem_a THEN SubsystemA ELSE Null
          /\ subsystem_b_ = IF has_subsystem_b THEN SubsystemB ELSE Null
          /\ calls = <<Invoke("Facade::Facade",
                              <<has_subsystem_a, has_subsystem_b>>)>>

\* a call facade->fn() with the effect r
FacadeCall(fn, r) ==
    /\ ClientCalls < MaxCalls
    /\ out' = out \o r.out
    /\ calls' = calls \o <<Invoke(fn, <<>>)>> \o r.calls
    /\ UNCHANGED <<composite_vars, strategy_, subsystem_a_, subsystem_b_>>

FacadeInit == FacadeCall("Facade::init", Facade_init)
FacadeBuild == FacadeCall("Facade::build", Facade_build)
FacadeDeinit == FacadeCall("Facade::deinit", Facade_deinit)

NextFacade ==
    \/ FacadeInit
    \/ FacadeBuild
    \/ FacadeDeinit

SpecFacade == InitFacade /\ [][NextFacade]_vars

\* what a Facade constructed with the arguments has must invoke in a call
\* that stands for the subsystem operation op: A's, then B's
Expected(has, op) ==
    (IF has[1] THEN <<Invoke("SubsystemA::" \o op, <<>>)>> ELSE <<>>) \o
    (IF has[2] THEN <<Invoke("SubsystemB::" \o op, <<>>)>> ELSE <<>>)

\* C25: each of init, build and deinit invokes the corresponding operation
\* (init, do_something, deinit) on exactly the subsystems the Facade was
\* constructed with, never on an absent one, and A before B.
C25_FacadeOrder ==
    [][\A pair \in { <<"Facade::init", "init">>,
                     <<"Facade::build", "do_something">>,
                     <<"Facade::deinit", "deinit">> } :
          IsInvoke(pair[1]) =>
             calls' = calls \o <<Invoke(pair[1], <<>>)>>
                            \o Expected(calls[1][2], pair[2])
      ]_vars

\* run_client(true, true): init, build and deinit have run on a Facade with
\* both subsystems, and deinit called A before B
C25_Witness ==
    /\ calls[1] = Invoke("Facade::Facade", <<TRUE, TRUE>>)
    /\ Len(calls) = 10
    /\ SubSeq(calls, 8, 10) = << Invoke("Facade::deinit", <<>>),
                                 Invoke("SubsystemA::deinit", <<>>),
                                 Invoke("SubsystemB::deinit", <<>>) >>
    /\ calls[2][1] = "Facade::init"
    /\ calls[5][1] = "Facade::build"

====
